---- MODULE Spec2Model ----
(***************************************************************************)
(* Model of src/algorithm/Power.h (namespace RL): episode, episodes and    *)
(* power, instantiated for dimension d = 1 (TParameter and TWeight are     *)
(* 1x1, so the identity matrix is 1, the outer product s*s^T is s*s and    *)
(* the matrix inverse is the reciprocal).                                  *)
(*                                                                         *)
(* A double is modelled as an extended rational <<n, d>> with d >= 0 in    *)
(* lowest terms: d > 0 is the finite value n/d, <<1,0>> is +Inf, <<-1,0>>  *)
(* is -Inf and <<0,0>> is NaN.  The arithmetic follows IEEE-754 for        *)
(* division by zero, Inf and NaN; rounding is not modelled (the inputs are *)
(* small integers and sigma is a power of two) and neither is the sign of  *)
(* zero (no input is negative zero, every accumulator starts at +0 and no  *)
(* divisor is a product with a negative factor).                           *)
(*                                                                         *)
(* The world and the noise policy are external: a world is the set of      *)
(* rewards and next states act() may return and the set of states          *)
(* isTerminal() accepts; the noise policy is the set of noise samples it   *)
(* may draw.                                                               *)
(***************************************************************************)
EXTENDS Integers, Sequences, FiniteSets

\* ---- bounds of the model ----
MaxUpdates == 2
MaxUpdateEpisode == 2
MaxEpisodeLength == 3

\* ---- extended rational arithmetic (double) ----
Abs(x) == IF x < 0 THEN -x ELSE x

Sign(x) == IF x < 0 THEN -1 ELSE IF x > 0 THEN 1 ELSE 0

RECURSIVE Gcd(_, _)
Gcd(a, b) == IF b = 0 THEN a ELSE Gcd(b, a % b)

Norm(n, d) ==
  IF d = 0 THEN <<Sign(n), 0>>
  ELSE LET g == Gcd(Abs(n), Abs(d))
       IN  <<(Sign(d) * n) \div g, Abs(d) \div g>>

Num(n) == <<n, 1>>
Zero == Num(0)
Identity == Num(1)
NaN == <<0, 0>>
PosInf == <<1, 0>>
NegInf == <<-1, 0>>

IsFinite(a) == a[2] > 0

Add(a, b) ==
  IF a[2] = 0 /\ b[2] = 0
  THEN (IF a = b THEN a ELSE NaN)
  ELSE Norm(a[1] * b[2] + b[1] * a[2], a[2] * b[2])

Mul(a, b) == Norm(a[1] * b[1], a[2] * b[2])

Inverse(a) == Norm(a[2], a[1])

Div(a, b) == Mul(a, Inverse(b))

\* ---- inputs ----
\* sigma as episodes passes it (0.5), and the degenerate sigma = 0
Half == <<1, 2>>
Sigmas == {Zero, Half}

StateValues == {0, 1, 2}

\* IWorld: what act() may return and what isTerminal() accepts
World(R, N, T) == [rewards |-> R, next |-> N, terminal |-> T]

\* worlds and noise policies for a direct call of episode
EpisodeWorlds ==
  {World(R, N, T) : R \in {{1}, {-1, 1}}, N \in {{0}, {1, 2}, StateValues},
                    T \in {{}, {0}, {2}}}
EpisodePolicies == {{0}, {0, 1}}

\* a world and a noise policy for each call of power
PowerSetups ==
  {<<World({1}, {1}, {}), {0}>>,
   <<World({1}, {0, 1}, {}), {0}>>,
   <<World({1}, {1}, {}), {1}>>,
   <<World({1}, {1, 2}, {2}), {1}>>,
   <<World({-1, 1}, {2}, {2}), {1}>>,
   <<World({0, 1}, {1}, {1}), {-1, 1}>>}

\* every state a world can be in is terminal
AlwaysTerminal(w) == w.next \subseteq w.terminal

Thetas == {Zero, Identity}

VARIABLES
  entry,             \* the function the embedding code calls
  pc,                \* position in the code
  world, noise,      \* the world and the noise policy in use
  theta,             \* the policy parameter
  updates, updateEpisode, episodeLength, sigma,   \* arguments
  \* power
  i, update,
  \* episodes
  ei, sumWeightRewards, sumEpsilonRewards, rewardsSum, meanReturn,
  \* episode
  state, step, rewards, epsilons, states, wi, weightRewards, epsilonRewards,
  ret,
  \* history, not read by the code
  theta0,            \* theta at the entry call
  rawRewards,        \* the rewards act() returned in this episode
  actStates,         \* the states act() was called with in this episode
  weights,           \* the weight used at each index of the weighting pass
  divs,              \* the indices whose quadratic-form division was evaluated
  worldCalled,       \* act() or the noise policy has been called
  thetaAtCall,       \* theta as passed to the running call of episodes
  policyThetas,      \* the thetas the noise policy got in this call of episodes
  episodeRuns,       \* episodes run in this call of episodes
  returnSum,         \* sum of their returns
  episodesCalls,     \* calls of episodes made by power
  updateSum          \* sum of the update vectors they produced

args == <<updates, updateEpisode, episodeLength>>
env == <<entry, world, noise, theta0>>
powerVars == <<i, update>>
episodesVars == <<ei, sumWeightRewards, sumEpsilonRewards, rewardsSum, meanReturn>>
episodeVars == <<state, step, rewards, epsilons, states, wi, weightRewards,
                 epsilonRewards, ret, sigma>>
episodeHist == <<rawRewards, actStates, weights, divs>>
episodesHist == <<thetaAtCall, policyThetas, episodeRuns, returnSum>>
powerHist == <<episodesCalls, updateSum>>
vars == <<args, env, pc, theta, powerVars, episodesVars, episodeVars,
          episodeHist, episodesHist, powerHist, worldCalled>>

\* the locals of the three functions before they are called
InitLocals ==
  /\ i = 0 /\ update = Zero
  /\ ei = 0 /\ sumWeightRewards = Zero /\ sumEpsilonRewards = Zero
  /\ rewardsSum = 0 /\ meanReturn = Zero
  /\ state = 0 /\ step = 0 /\ rewards = <<>> /\ epsilons = <<>> /\ states = <<>>
  /\ wi = 0 /\ weightRewards = Zero /\ epsilonRewards = Zero /\ ret = 0
  /\ rawRewards = <<>> /\ actStates = <<>> /\ weights = <<>> /\ divs = {}
  /\ worldCalled = FALSE
  /\ thetaAtCall = theta /\ policyThetas = {} /\ episodeRuns = 0 /\ returnSum = 0
  /\ episodesCalls = 0 /\ updateSum = Zero

\* episode(world, theta, weightRewards, epsilonRewards, sigma, episodeLength)
InitEpisode ==
  /\ entry = "episode" /\ pc = "rollout"
  /\ world \in EpisodeWorlds /\ noise \in EpisodePolicies
  /\ theta \in Thetas /\ theta0 = theta
  /\ sigma \in Sigmas
  /\ \/ episodeLength \in 0..MaxEpisodeLength
     \/ episodeLength = 10 /\ AlwaysTerminal(world)
  /\ updates = 0 /\ updateEpisode = 0
  /\ InitLocals

\* power(world, theta, updates, updateEpisode, episodeLength)
InitPower ==
  /\ entry = "power" /\ pc = "power"
  /\ \E setup \in PowerSetups : world = setup[1] /\ noise = setup[2]
  /\ theta \in Thetas /\ theta0 = theta
  /\ sigma = Zero
  /\ episodeLength \in 0..MaxEpisodeLength
  /\ updates \in 0..MaxUpdates /\ updateEpisode \in 0..MaxUpdateEpisode
  /\ InitLocals

Init == InitEpisode \/ InitPower

\* ---- episode ----
\* variants of the loop condition: one step too many, and the terminal test on
\* the state the step was taken in
LoopCondInclusive == step' <= episodeLength /\ state' \notin world.terminal
LoopCondOnOldState == step' < episodeLength /\ state \notin world.terminal

\* the condition of the do-while loop
LoopCond == step' < episodeLength /\ state' \notin world.terminal

\* variant: the state the step led to is pushed
RecordedNext(st, nextSt) == nextSt

\* the state pushed on states
Recorded(st, nextSt) == st

\* one iteration of the rollout loop
RolloutStep ==
  /\ pc = "rollout"
  /\ \E epsilon \in noise, reward \in world.rewards, nextState \in world.next :
       /\ rewards' = Append(rewards, reward)
       /\ epsilons' = Append(epsilons, epsilon)
       /\ states' = Append(states, Recorded(state, nextState))
       /\ state' = nextState
       /\ rawRewards' = Append(rawRewards, reward)
       /\ actStates' = Append(actStates, state)
  /\ step' = step + 1
  /\ policyThetas' = policyThetas \cup {theta}
  /\ worldCalled' = TRUE
  /\ pc' = IF LoopCond THEN "rollout" ELSE "rewardToGo"
  /\ UNCHANGED <<args, env, theta, powerVars, episodesVars, wi, weightRewards,
                 epsilonRewards, ret, sigma, weights, divs, thetaAtCall,
                 episodeRuns, returnSum, powerHist>>

\* the reverse pass over rewards (rbegin to rend): reward is the running sum,
\* k the position of the reverse iterator
RECURSIVE RewardToGoFrom(_, _, _)
RewardToGoFrom(rs, k, reward) ==
  IF k = 0 THEN rs
  ELSE LET sum == reward + rs[k]
       IN  RewardToGoFrom([rs EXCEPT ![k] = sum], k - 1, sum)

\* variant: the pass runs from the first entry to the last
RECURSIVE RewardToGoForwardFrom(_, _, _)
RewardToGoForwardFrom(rs, k, reward) ==
  IF k > Len(rs) THEN rs
  ELSE LET sum == reward + rs[k]
       IN  RewardToGoForwardFrom([rs EXCEPT ![k] = sum], k + 1, sum)

RewardToGoForward(rs) == RewardToGoForwardFrom(rs, 1, 0)

RewardToGo(rs) == RewardToGoFrom(rs, Len(rs), 0)

RewardToGoPass ==
  /\ pc = "rewardToGo"
  /\ rewards' = RewardToGo(rewards)
  /\ weightRewards' = Zero
  /\ epsilonRewards' = Zero
  /\ wi' = 0
  /\ pc' = "weighting"
  /\ UNCHANGED <<args, env, theta, powerVars, episodesVars, state, step,
                 epsilons, states, ret, sigma, episodeHist, episodesHist,
                 powerHist, worldCalled>>

\* states[i] * states[i]^T * (1.0 / (states[i]^T * sigma * states[i]))
QuadraticForm(s, sig) == Mul(Mul(Num(s), sig), Num(s))
OuterWeight(s, sig) == Mul(Mul(Num(s), Num(s)), Inverse(QuadraticForm(s, sig)))

\* variant: no special case for index 0
UsesIdentityNever(k) == FALSE

\* the test that selects the identity weight
UsesIdentity(k) == k = 0

\* one iteration of the weighting loop
WeightStep ==
  /\ pc = "weighting"
  /\ wi < Len(rewards)
  /\ LET weight == IF UsesIdentity(wi) THEN Identity
                   ELSE OuterWeight(states[wi + 1], sigma)
     IN  /\ weightRewards' = Add(weightRewards, Mul(weight, Num(rewards[wi + 1])))
         /\ epsilonRewards' =
              Add(epsilonRewards,
                  Mul(Mul(weight, Num(epsilons[wi + 1])), Num(rewards[wi + 1])))
         /\ weights' = Append(weights, weight)
  /\ divs' = IF UsesIdentity(wi) THEN divs ELSE divs \cup {wi}
  /\ wi' = wi + 1
  /\ UNCHANGED <<args, env, pc, theta, powerVars, episodesVars, state, step,
                 rewards, epsilons, states, ret, sigma, rawRewards, actStates,
                 episodesHist, powerHist, worldCalled>>

\* return rewards[0], to the embedding code
EpisodeReturn ==
  /\ pc = "weighting"
  /\ wi >= Len(rewards)
  /\ entry = "episode"
  /\ ret' = rewards[1]
  /\ pc' = "done"
  /\ UNCHANGED <<args, env, theta, powerVars, episodesVars, state, step, rewards,
                 epsilons, states, wi, weightRewards, epsilonRewards, sigma,
                 episodeHist, episodesHist, powerHist, worldCalled>>

RECURSIVE SeqSum(_)
SeqSum(q) == IF q = <<>> THEN 0 ELSE Head(q) + SeqSum(Tail(q))

\* return rewards[0], to episodes, which adds the results to its sums; the
\* locals of episode are gone
EpisodeReturnToEpisodes ==
  /\ pc = "weighting"
  /\ wi >= Len(rewards)
  /\ entry = "power"
  /\ rewardsSum' = rewardsSum + rewards[1]
  /\ sumWeightRewards' = Add(sumWeightRewards, weightRewards)
  /\ sumEpsilonRewards' = Add(sumEpsilonRewards, epsilonRewards)
  /\ ei' = ei + 1
  /\ returnSum' = returnSum + SeqSum(rawRewards)
  /\ state' = 0 /\ step' = 0 /\ rewards' = <<>> /\ epsilons' = <<>>
  /\ states' = <<>> /\ wi' = 0 /\ weightRewards' = Zero /\ epsilonRewards' = Zero
  /\ rawRewards' = <<>> /\ actStates' = <<>> /\ weights' = <<>> /\ divs' = {}
  /\ pc' = "episodes"
  /\ UNCHANGED <<args, env, theta, powerVars, meanReturn, ret, sigma,
                 thetaAtCall, policyThetas, episodeRuns, powerHist, worldCalled>>

\* ---- episodes ----
\* variant: one episode too many
EpisodesCondInclusive == ei <= updateEpisode

\* the condition of the loop over the episodes
EpisodesCond == ei < updateEpisode

\* the sigma episodes passes
EpisodesSigma == Half

\* the loop of episodes calls episode
EpisodeCall ==
  /\ pc = "episodes"
  /\ EpisodesCond
  /\ sigma' = EpisodesSigma
  /\ state' = 0 /\ step' = 0 /\ rewards' = <<>> /\ epsilons' = <<>>
  /\ states' = <<>>
  /\ episodeRuns' = episodeRuns + 1
  /\ pc' = "rollout"
  /\ UNCHANGED <<args, env, theta, powerVars, episodesVars, wi, weightRewards,
                 epsilonRewards, ret, episodeHist, thetaAtCall, policyThetas,
                 returnSum, powerHist, worldCalled>>

\* rewards / static_cast<double>(updateEpisode)
MeanReturn(sum, n) == Div(Num(sum), Num(n))

\* after the loop: the means, the update vector and the mean return
EpisodesReturn ==
  /\ pc = "episodes"
  /\ ~EpisodesCond
  /\ LET meanWeight == Div(sumWeightRewards, Num(updateEpisode))
         meanEpsilon == Div(sumEpsilonRewards, Num(updateEpisode))
     IN  /\ sumWeightRewards' = meanWeight
         /\ sumEpsilonRewards' = meanEpsilon
         /\ update' = Mul(Inverse(meanWeight), meanEpsilon)
  /\ meanReturn' = MeanReturn(rewardsSum, updateEpisode)
  /\ pc' = "powerAdd"
  /\ UNCHANGED <<args, env, theta, i, ei, rewardsSum, episodeVars, episodeHist,
                 episodesHist, powerHist, worldCalled>>

\* ---- power ----
\* variant: one update too many
PowerCondInclusive == i <= updates

\* the condition of the loop over the updates
PowerCond == i < updates

\* the loop of power calls episodes, which zeroes its sums
EpisodesCall ==
  /\ pc = "power"
  /\ PowerCond
  /\ sumWeightRewards' = Zero
  /\ sumEpsilonRewards' = Zero
  /\ rewardsSum' = 0
  /\ ei' = 0
  /\ thetaAtCall' = theta /\ policyThetas' = {} /\ episodeRuns' = 0
  /\ returnSum' = 0
  /\ episodesCalls' = episodesCalls + 1
  /\ pc' = "episodes"
  /\ UNCHANGED <<args, env, theta, powerVars, meanReturn, episodeVars,
                 episodeHist, updateSum, worldCalled>>

\* variant: theta = update
NewThetaAssign(th, u) == u

\* theta += update
NewTheta(th, u) == Add(th, u)

PowerAdd ==
  /\ pc = "powerAdd"
  /\ theta' = NewTheta(theta, update)
  /\ i' = i + 1
  /\ updateSum' = Add(updateSum, update)
  /\ pc' = "power"
  /\ UNCHANGED <<args, env, update, episodesVars, episodeVars, episodeHist,
                 episodesHist, episodesCalls, worldCalled>>

PowerReturn ==
  /\ pc = "power"
  /\ ~PowerCond
  /\ pc' = "done"
  /\ UNCHANGED <<args, env, theta, powerVars, episodesVars, episodeVars,
                 episodeHist, episodesHist, powerHist, worldCalled>>

Next ==
  \/ RolloutStep \/ RewardToGoPass \/ WeightStep \/ EpisodeReturn
  \/ EpisodeReturnToEpisodes \/ EpisodeCall \/ EpisodesReturn
  \/ EpisodesCall \/ PowerAdd \/ PowerReturn

Spec == Init /\ [][Next]_vars

\* ---- properties ----
Max(a, b) == IF a > b THEN a ELSE b

\* the rollout loop of the running episode has exited
RolloutOver ==
  \/ pc \in {"rewardToGo", "weighting"}
  \/ pc = "done" /\ entry = "episode"

\* the reward-to-go pass of the running episode is over
RewardToGoOver ==
  \/ pc = "weighting"
  \/ pc = "done" /\ entry = "episode"

\* the weighting pass of the running episode is over
WeightingOver ==
  \/ pc = "weighting" /\ wi = Len(rewards)
  \/ pc = "done" /\ entry = "episode"

\* the state after k steps of the running episode
After(k) == IF k < Len(states) THEN states[k + 1] ELSE state

C2_RewardToGo ==
  /\ RewardToGoOver =>
       LET n == Len(rewards)
       IN  /\ n = Len(rawRewards)
           /\ rewards[n] = rawRewards[n]
           /\ \A k \in 1..(n - 1) : rewards[k] = rawRewards[k] + rewards[k + 1]
           /\ rewards[1] = SeqSum(rawRewards)
  /\ (pc = "done" /\ entry = "episode") => ret = SeqSum(rawRewards)

C2_Witness ==
  /\ pc = "done" /\ entry = "episode"
  /\ rawRewards = <<1, -1, -1>> /\ rewards = <<-1, -2, -1>> /\ ret = -1

\* C3: the terminal predicate is applied only to the states reached by a
\* step.  While the loop runs no state reached so far is terminal and fewer
\* than episodeLength steps were taken; when it has exited with
\* episodeLength >= 1, the number of recorded transitions is the smallest
\* k >= 1 whose state after k steps is terminal, or episodeLength if there is
\* none up to episodeLength.  A world whose first step leads to a terminal
\* state records exactly 1 transition when episodeLength = 10.
C3_StopsAtFirstTerminal ==
  /\ (pc = "rollout" /\ step >= 1) =>
       /\ step < episodeLength
       /\ \A k \in 1..step : After(k) \notin world.terminal
  /\ (RolloutOver /\ episodeLength >= 1) =>
       LET n == Len(states)
       IN  /\ n \in 1..episodeLength
           /\ \A k \in 1..(n - 1) : After(k) \notin world.terminal
           /\ n < episodeLength => After(n) \in world.terminal
  /\ (RolloutOver /\ episodeLength = 10 /\ After(1) \in world.terminal) =>
       Len(states) = 1

C3_Witness ==
  /\ RolloutOver /\ episodeLength = 3 /\ world.terminal = {0}
  /\ states = <<0, 2>> /\ state = 0

\* C4: at every point of an episode the lists of states, noise samples and
\* rewards have the same length, the number of steps executed; the recorded
\* states are the states act() was called with, the first being zero and
\* each later one the state the step before led to.
C4_RecordedLists ==
  /\ Len(states) = step
  /\ Len(epsilons) = step
  /\ Len(rewards) = step
  /\ states = actStates
  /\ step >= 1 => states[1] = 0
  /\ \A k \in 1..(step - 1) : states[k + 1] = After(k)

C4_Witness == pc = "rollout" /\ step = 2 /\ states = <<0, 2>> /\ state = 1

\* C5: power called with updates = 0 leaves theta as it was, calls neither
\* episodes nor the world nor the noise policy, and returns.
C5_NoUpdates ==
  (entry = "power" /\ updates = 0) =>
    /\ theta = theta0
    /\ ~worldCalled
    /\ episodesCalls = 0
    /\ pc \in {"power", "done"}

C5_Witness ==
  /\ entry = "power" /\ updates = 0 /\ pc = "done"
  /\ updateEpisode = 2 /\ episodeLength = 3 /\ theta = Identity

\* the running call of episodes is inside an episode
InEpisode == entry = "power" /\ pc \in {"rollout", "rewardToGo", "weighting"}

\* C6: a call of episodes with updateEpisode >= 1 runs exactly updateEpisode
\* episodes, each with the theta episodes was given (theta does not change
\* during the call), with sigma = 0.5 and from the zero state, and returns
\* the sum of the episodes' total returns divided by updateEpisode.
C6_Episodes ==
  (entry = "power" /\ updateEpisode >= 1) =>
    /\ pc \in {"rollout", "rewardToGo", "weighting", "episodes", "powerAdd"} =>
         /\ theta = thetaAtCall
         /\ policyThetas \subseteq {thetaAtCall}
         /\ episodeRuns <= updateEpisode
    /\ InEpisode =>
         /\ sigma = Half
         /\ After(0) = 0
    /\ pc = "powerAdd" =>
         /\ episodeRuns = updateEpisode
         /\ policyThetas = {thetaAtCall}
         /\ meanReturn = Div(Num(returnSum), Num(updateEpisode))

C6_Witness ==
  /\ entry = "power" /\ pc = "powerAdd" /\ updateEpisode = 2
  /\ returnSum = 1 /\ meanReturn = Half /\ i = 1

\* C7 as stated: the weighting pass never gets past an index i > 0 whose
\* quadratic form states[i]^T * sigma * states[i] is 0 (the episode fails
\* there), so no episode completes with a non-finite weight sum.
C7_DegenerateWeightFails ==
  /\ \A k \in divs : QuadraticForm(states[k + 1], sigma) # Zero
  /\ WeightingOver => IsFinite(weightRewards)

\* the world, the noise policy and the arguments of Scenario A
ScenarioA ==
  /\ entry = "power"
  /\ world.rewards = {1} /\ world.terminal = {} /\ noise = {0}
  /\ episodeLength = 3 /\ updateEpisode >= 1

\* C8 as stated: in Scenario A every episode has total return 3, weight 1 at
\* step 0 and a zero noise-weighted sum, the update vector episodes returns
\* is finite and 0, and theta stays at its initial value.
C8_ScenarioA ==
  ScenarioA =>
    /\ (pc = "weighting" /\ wi = Len(rewards)) =>
         /\ rewards[1] = 3
         /\ weights[1] = Identity
         /\ epsilonRewards = Zero
    /\ pc = "powerAdd" => update = Zero
    /\ theta = theta0

\* C9: power makes exactly updates calls of episodes and returns; each call
\* gets the theta the iteration before left, theta after an iteration is
\* that theta plus the call's update vector, and the final theta is the
\* initial theta plus the sum of the update vectors, whatever they are.
C9_Power ==
  entry = "power" =>
    /\ episodesCalls <= updates
    /\ episodesCalls = (IF pc \in {"power", "done"} THEN i ELSE i + 1)
    /\ pc # "power" /\ pc # "done" => thetaAtCall = Add(theta0, updateSum)
    /\ (pc = "power" /\ i >= 1) => theta = Add(thetaAtCall, update)
    /\ pc \in {"power", "done"} => theta = Add(theta0, updateSum)
    /\ pc = "done" => episodesCalls = updates

C9_Witness ==
  /\ entry = "power" /\ pc = "done" /\ updates = 2
  /\ IsFinite(theta) /\ theta # theta0 /\ update # Zero /\ theta # update

\* C10: in the weighting pass of every episode the weight of index 0 is the
\* identity although the state recorded there is the zero vector, index 0
\* adds rewards[0] to weightRewards and rewards[0] * epsilons[0] to
\* epsilonRewards without evaluating the quadratic-form division, and every
\* index i > 0, and only those, uses the outer-product formula.
C10_IdentityAtStepZero ==
  (pc = "weighting" /\ wi >= 1) =>
    /\ states[1] = 0
    /\ weights[1] = Identity
    /\ 0 \notin divs
    /\ wi = 1 =>
         /\ weightRewards = Num(rewards[1])
         /\ epsilonRewards = Num(rewards[1] * epsilons[1])
    /\ divs = 1..(wi - 1)
    /\ \A k \in 1..(wi - 1) : weights[k + 1] = OuterWeight(states[k + 1], sigma)

C10_Witness ==
  /\ pc = "weighting" /\ wi = 2 /\ sigma = Half
  /\ epsilons[1] = 1 /\ rewards[1] = 2 /\ states = <<0, 2>>
  /\ weights = <<Identity, Num(2)>> /\ epsilonRewards = Num(2)

====
